---- MODULE Spec2Model ----
(***************************************************************************)
(* Notification delivery and sequencing of the TeamAchievementNotification *)
(* React component (src/scripts/check-env.mjs, lines 41-252), together     *)
(* with the three backend collaborators it talks to: the unread query, the *)
(* mark_team_notification_read procedure and the INSERT live feed.         *)
(*                                                                         *)
(* One action is one uninterrupted run of the JavaScript event loop: an    *)
(* event handler or the continuation of an await, the re-render its state  *)
(* updates cause, and the effects of that render.  A closure created by a  *)
(* render keeps the state of that render; the model stores what each       *)
(* pending continuation or timer has captured.                             *)
(***************************************************************************)
EXTENDS Bags, FiniteSets, Integers, Sequences, TLC

\* ---------------------------------------------------------------- bounds
MaxCloses == 2        \* handleClose invocations in one behaviour
MaxUserChanges == 1   \* changes of the userId prop in one behaviour
MaxInserts == 1       \* rows the backend creates after the mount

\* ------------------------------------------------------------ the backend
UserIds == {"X", "Y"}
Ids == {"A", "B", "C"}
Null == "null"

\* rows of team_achievement_notifications: user_id and created_at columns
user_id(n) == "X"
created_at(n) == CASE n = "A" -> 10 [] n = "B" -> 20 [] OTHER -> 30

VARIABLES
  rows,                \* backend: ids of the rows that exist
  unread,              \* backend: ids of the rows with is_read = false
  feed,                \* live feed: INSERT notices not yet delivered, per user_id
  mounted,             \* the component instance is mounted
  userId,              \* the userId prop
  userChanges,         \* number of changes of the userId prop so far
  notifications,       \* useState: the queue
  showNotification,    \* useState
  currentNotification, \* useState: an id or Null
  subscriptions,       \* callbacks registered on the live feed, per filter user
  loads,               \* bag of loadUnreadNotifications calls awaiting
  closes,              \* bag of handleClose calls awaiting the rpc
  timers,              \* bag of pending setTimeout callbacks (captured closure)
  nCloses,             \* number of handleClose invocations so far
  nInserts,            \* number of rows created after the mount
  confetti,            \* number of triggerConfetti calls
  showing,             \* history: presentations started and not yet ended
  shown,               \* history: Idle -> Showing transitions per id
  acks,                \* history: handleClose calls that resumed, per id
  markReadFailed,      \* history: some mark-read call failed
  loadFailed,          \* history: some query of a load failed
  last                 \* history: the step taken last

backendVars == <<rows, unread, feed, nInserts>>
histVars == <<acks, markReadFailed, loadFailed>>
stateVars == <<notifications, showNotification, currentNotification, confetti,
               showing, shown>>
vars == <<rows, unread, feed, mounted, userId, userChanges, notifications,
          showNotification, currentNotification, subscriptions, loads, closes,
          timers, nCloses, nInserts, confetti, showing, shown, acks,
          markReadFailed, loadFailed, last>>

\* ------------------------------------------------------------- helpers
Range(s) == {s[i] : i \in DOMAIN s}

One(x) == SetToBag({x})

\* .order('created_at', { ascending: true }): the orderings of a set of rows
\* that are ascending in created_at (rows with equal created_at in any order)
OrderByCreatedAt(S) ==
  {s \in [1..Cardinality(S) -> S] :
      /\ \A i, j \in DOMAIN s : i < j => s[i] # s[j]
      /\ \A i, j \in DOMAIN s : i < j => created_at(s[i]) <= created_at(s[j])}

\* the query of loadUnreadNotifications for user u, evaluated by the backend
SelectUnread(u) == OrderByCreatedAt({n \in unread : user_id(n) = u})

\* variant: the head is dropped whatever the id (prev.slice(1))
RemoveById_head(q, id) == IF q = <<>> THEN q ELSE Tail(q)

\* prev.filter((n) => n.id !== id)
RemoveById(q, id) == SelectSeq(q, LAMBDA n : n # id)

\* the component state as one record, to compose updates within a step
St == [notifications |-> notifications, showNotification |-> showNotification,
       currentNotification |-> currentNotification, confetti |-> confetti,
       showing |-> showing, shown |-> shown]

\* the state a render's closures capture (what showNextNotification reads)
Closure(st) == [notifications |-> st.notifications,
                showNotification |-> st.showNotification]

\* variant: the guard does not test showNotification
showNextNotification_noGuard(cl, st) ==
  IF Len(cl.notifications) > 0
    THEN [st EXCEPT !.currentNotification = cl.notifications[1],
                    !.showNotification = TRUE,
                    !.confetti = @ + 1,
                    !.showing = @ \cup {cl.notifications[1]},
                    !.shown[cl.notifications[1]] = @ + 1]
    ELSE st

\* variant: the newest element is selected instead of notifications[0]
showNextNotification_last(cl, st) ==
  IF Len(cl.notifications) > 0 /\ ~cl.showNotification
    THEN [st EXCEPT !.currentNotification = cl.notifications[Len(cl.notifications)],
                    !.showNotification = TRUE,
                    !.confetti = @ + 1,
                    !.showing = @ \cup {cl.notifications[Len(cl.notifications)]},
                    !.shown[cl.notifications[Len(cl.notifications)]] = @ + 1]
    ELSE st

\* showNextNotification as created by the render whose state is cl, run
\* against the component state st
showNextNotification(cl, st) ==
  IF Len(cl.notifications) > 0 /\ ~cl.showNotification
    THEN [st EXCEPT !.currentNotification = cl.notifications[1],
                    !.showNotification = TRUE,
                    !.confetti = @ + 1,
                    !.showing = @ \cup {cl.notifications[1]},
                    !.shown[cl.notifications[1]] = @ + 1]
    ELSE st

\* variant: the effect has no dependency and runs at mount only
NotificationsEffect_mountOnly(st) == st

\* useEffect(..., [notifications]) of the render whose state is st
NotificationsEffect(st) ==
  IF Len(st.notifications) > 0 /\ ~st.showNotification
    THEN showNextNotification(Closure(st), st)
    ELSE st

\* variant: a reload also closes the dialog before the effect runs
ApplyLoad_reset(st, data) ==
  IF mounted
    THEN NotificationsEffect([st EXCEPT !.notifications = data,
                                        !.showNotification = FALSE,
                                        !.currentNotification = Null,
                                        !.showing = {}])
    ELSE st

\* setNotifications(data) of loadUnreadNotifications, then render and effect
ApplyLoad(st, data) ==
  IF mounted THEN NotificationsEffect([st EXCEPT !.notifications = data])
  ELSE st

\* variant: the response is applied without the test of error
\* (setNotifications(data || []))
AfterLoad_noTest(st, error, data) == ApplyLoad(st, data)

\* loadUnreadNotifications after its await: if (!error && data); data is null
\* when the query failed
AfterLoad(st, error, data) ==
  IF ~error THEN ApplyLoad(st, data) ELSE st

\* variant: the queue is left as it is (no setNotifications)
ApplyClose_noRemove(st, id) ==
  IF mounted
    THEN NotificationsEffect([st EXCEPT !.showNotification = FALSE,
                                        !.currentNotification = Null,
                                        !.showing = {}])
    ELSE st

\* variant: currentNotification is not reset (no setCurrentNotification(null))
ApplyClose_keepCurrent(st, id) ==
  IF mounted
    THEN NotificationsEffect([st EXCEPT !.showNotification = FALSE,
                                        !.showing = {},
                                        !.notifications = RemoveById(@, id)])
    ELSE st

\* the three state updates of handleClose, then render and effect
ApplyClose(st, id) ==
  IF mounted
    THEN NotificationsEffect([st EXCEPT !.showNotification = FALSE,
                                        !.currentNotification = Null,
                                        !.showing = {},
                                        !.notifications = RemoveById(@, id)])
    ELSE st

\* showNextNotification run by the timer of handleClose: state updates reach
\* the component only while it is mounted, the call of triggerConfetti always
ApplyTimer(st, cl) ==
  IF mounted THEN showNextNotification(cl, st)
  ELSE [st EXCEPT !.confetti = showNextNotification(cl, st).confetti]

\* the component state after the step
Commit(st) ==
  /\ notifications' = st.notifications
  /\ showNotification' = st.showNotification
  /\ currentNotification' = st.currentNotification
  /\ showing' = st.showing
  /\ shown' = st.shown
  /\ confetti' = st.confetti

\* the record of a step: its handler, the id it is about, and whether a
\* notification was shown when it began
Step(op, id) ==
  [op |-> op, id |-> id, prevShow |-> (op = "load" /\ showNotification)]

\* a loadUnreadNotifications call by a closure whose userId is u
NewLoad(u) == [user |-> u, phase |-> "sent", data |-> <<>>]

\* ---------------------------------------------------------------- Init
\* the state after mount: both effects have run once
Init ==
  /\ rows \in SUBSET Ids
  /\ unread = rows
  /\ feed = [u \in UserIds |-> 0]
  /\ mounted = TRUE
  /\ userId = "X"
  /\ userChanges = 0
  /\ notifications = <<>>
  /\ showNotification = FALSE
  /\ currentNotification = Null
  /\ subscriptions = [u \in UserIds |-> IF u = "X" THEN 1 ELSE 0]
  /\ loads = One(NewLoad("X"))
  /\ closes = EmptyBag
  /\ timers = EmptyBag
  /\ nCloses = 0
  /\ nInserts = 0
  /\ confetti = 0
  /\ showing = {}
  /\ shown = [n \in Ids |-> 0]
  /\ acks = [n \in Ids |-> 0]
  /\ markReadFailed = FALSE
  /\ loadFailed = FALSE
  /\ last = [op |-> "mount", id |-> Null, prevShow |-> FALSE]

\* -------------------------------------------------------------- backend
\* the external collaborator creates a notification row; the feed notes it
Insert(n) ==
  /\ n \notin rows
  /\ nInserts < MaxInserts
  /\ nInserts' = nInserts + 1
  /\ rows' = rows \cup {n}
  /\ unread' = unread \cup {n}
  /\ feed' = [feed EXCEPT ![user_id(n)] = @ + 1]
  /\ last' = Step("insert", n)
  /\ UNCHANGED <<mounted, userId, userChanges, stateVars, subscriptions, loads,
                 closes, timers, nCloses, histVars>>

\* the backend answers the query of a load with the rows unread at this moment
BackendSelect(l) ==
  /\ BagIn(l, loads) /\ l.phase = "sent"
  /\ \E data \in SelectUnread(l.user) :
       loads' = (loads (-) One(l)) (+) One([l EXCEPT !.phase = "data", !.data = data])
  /\ last' = Step("select", Null)
  /\ UNCHANGED <<backendVars, mounted, userId, userChanges, stateVars,
                 subscriptions, closes, timers, nCloses, histVars>>

\* the query fails: loadUnreadNotifications resumes with { data: null, error }
\* and its test !error && data lets it return without a state update
LoadError(l) ==
  /\ BagIn(l, loads) /\ l.phase = "sent"
  /\ loads' = loads (-) One(l)
  /\ Commit(AfterLoad(St, TRUE, <<>>))
  /\ loadFailed' = TRUE
  /\ last' = Step("loadError", Null)
  /\ UNCHANGED <<backendVars, mounted, userId, userChanges, subscriptions,
                 closes, timers, nCloses, acks, markReadFailed>>

\* mark_team_notification_read sets is_read of the row
BackendMarkRead(c) ==
  /\ BagIn(c, closes) /\ c.phase = "sent"
  /\ unread' = unread \ {c.id}
  /\ closes' = (closes (-) One(c)) (+) One([c EXCEPT !.phase = "ok"])
  /\ last' = Step("markRead", c.id)
  /\ UNCHANGED <<rows, feed, nInserts, mounted, userId, userChanges, stateVars,
                 subscriptions, loads, timers, nCloses, histVars>>

\* the rpc fails; supabase.rpc resolves with { error } and nothing is changed
BackendMarkReadError(c) ==
  /\ BagIn(c, closes) /\ c.phase = "sent"
  /\ closes' = (closes (-) One(c)) (+) One([c EXCEPT !.phase = "fail"])
  /\ last' = Step("markReadError", c.id)
  /\ UNCHANGED <<backendVars, mounted, userId, userChanges, stateVars,
                 subscriptions, loads, timers, nCloses, histVars>>

\* ------------------------------------------------------------ component
\* the live feed delivers an INSERT notice to every callback registered with
\* the filter user_id=eq.u; each callback calls loadUnreadNotifications
OnInsertEvent(u) ==
  /\ feed[u] > 0
  /\ feed' = [feed EXCEPT ![u] = @ - 1]
  /\ loads' = IF subscriptions[u] = 0 THEN loads
              ELSE loads (+) [l \in {NewLoad(u)} |-> subscriptions[u]]
  /\ last' = Step("onInsert", Null)
  /\ UNCHANGED <<rows, unread, nInserts, mounted, userId, userChanges, stateVars,
                 subscriptions, closes, timers, nCloses, histVars>>

\* loadUnreadNotifications after its await
LoadResume(l) ==
  /\ BagIn(l, loads) /\ l.phase = "data"
  /\ loads' = loads (-) One(l)
  /\ Commit(AfterLoad(St, FALSE, l.data))
  /\ last' = Step("load", Null)
  /\ UNCHANGED <<backendVars, mounted, userId, userChanges, subscriptions,
                 closes, timers, nCloses, histVars>>

\* variant: the rpc is called with notifications[0].id
HandleClose_head ==
  /\ mounted /\ showNotification /\ currentNotification # Null
  /\ notifications # <<>>
  /\ nCloses < MaxCloses
  /\ nCloses' = nCloses + 1
  /\ closes' = closes (+) One([id |-> notifications[1], phase |-> "sent",
                                cl |-> Closure(St)])
  /\ last' = Step("click", notifications[1])
  /\ UNCHANGED <<backendVars, mounted, userId, userChanges, stateVars,
                 subscriptions, loads, timers, histVars>>

\* a click on one of the two buttons of the dialog: handleClose up to its await
HandleClose ==
  /\ mounted /\ showNotification /\ currentNotification # Null
  /\ nCloses < MaxCloses
  /\ nCloses' = nCloses + 1
  /\ closes' = closes (+) One([id |-> currentNotification, phase |-> "sent",
                                cl |-> Closure(St)])
  /\ last' = Step("click", currentNotification)
  /\ UNCHANGED <<backendVars, mounted, userId, userChanges, stateVars,
                 subscriptions, loads, timers, histVars>>

\* handleClose after its await: three state updates and setTimeout
HandleCloseResume(c) ==
  /\ BagIn(c, closes) /\ c.phase \in {"ok", "fail"}
  /\ closes' = closes (-) One(c)
  /\ Commit(ApplyClose(St, c.id))
  /\ timers' = timers (+) One(c.cl)
  /\ acks' = [acks EXCEPT ![c.id] = @ + 1]
  /\ markReadFailed' = (markReadFailed \/ c.phase = "fail")
  /\ last' = Step("closeResume", c.id)
  /\ UNCHANGED <<backendVars, mounted, userId, userChanges, subscriptions,
                 loads, nCloses, loadFailed>>

\* the 500 ms timer of handleClose fires: showNextNotification of the render
\* that created this handleClose
TimerFire(t) ==
  /\ BagIn(t, timers)
  /\ timers' = timers (-) One(t)
  /\ Commit(ApplyTimer(St, t))
  /\ last' = Step("timer", Null)
  /\ UNCHANGED <<backendVars, mounted, userId, userChanges, subscriptions,
                 loads, closes, nCloses, histVars>>

\* the userId prop changes: useEffect(..., [userId]) runs again; it has no
\* cleanup, because the function subscribeToNotifications returns is dropped
ChangeUser(u) ==
  /\ mounted /\ u # userId
  /\ userChanges < MaxUserChanges
  /\ userId' = u
  /\ userChanges' = userChanges + 1
  /\ loads' = loads (+) One(NewLoad(u))
  /\ subscriptions' = [subscriptions EXCEPT ![u] = @ + 1]
  /\ last' = Step("changeUser", Null)
  /\ UNCHANGED <<backendVars, mounted, stateVars, closes, timers, nCloses,
                 histVars>>

\* the component is unmounted; no effect of it has a cleanup
Unmount ==
  /\ mounted
  /\ mounted' = FALSE
  /\ last' = Step("unmount", Null)
  /\ UNCHANGED <<backendVars, userId, userChanges, stateVars, subscriptions,
                 loads, closes, timers, nCloses, histVars>>

Next ==
  \/ \E n \in Ids : Insert(n)
  \/ \E l \in BagToSet(loads) : BackendSelect(l)
  \/ \E l \in BagToSet(loads) : LoadError(l)
  \/ \E c \in BagToSet(closes) : BackendMarkRead(c)
  \/ \E c \in BagToSet(closes) : BackendMarkReadError(c)
  \/ \E u \in UserIds : OnInsertEvent(u)
  \/ \E l \in BagToSet(loads) : LoadResume(l)
  \/ HandleClose
  \/ \E c \in BagToSet(closes) : HandleCloseResume(c)
  \/ \E t \in BagToSet(timers) : TimerFire(t)

\* the component with its lifecycle: changes of the userId prop and the unmount
NextLifecycle ==
  \/ Next
  \/ \E u \in UserIds : ChangeUser(u)
  \/ Unmount

\* a component that stays mounted with one userId
Spec == Init /\ [][Next]_vars

SpecLifecycle == Init /\ [][NextLifecycle]_vars

TypeOK ==
  /\ unread \subseteq rows /\ rows \subseteq Ids
  /\ Range(notifications) \subseteq Ids
  /\ currentNotification \in Ids \cup {Null}
  /\ BagCardinality(loads) <= 1 + MaxInserts * (1 + MaxUserChanges) + MaxUserChanges
  /\ nCloses <= MaxCloses

\* ------------------------------------------------------------ properties
Sorted(q) == \A i, j \in DOMAIN q : i < j => created_at(q[i]) <= created_at(q[j])

UnreadOf(u) == {n \in unread : user_id(n) = u}

\* no call, notice or timer is pending
Quiescent ==
  /\ loads = EmptyBag /\ closes = EmptyBag /\ timers = EmptyBag
  /\ \A u \in UserIds : feed[u] = 0

\* C1: in every reachable state at most one notification is in the Showing
\* state: the presentations that were started and not ended are at most one,
\* and it is the one currentNotification names.
SinglePresentation ==
  /\ Cardinality(showing) <= 1
  /\ showNotification => showing = {currentNotification}
  /\ ~showNotification => showing = {}

\* a timer of an earlier dismissal has fired while a later notification is
\* shown and another one waits in the queue
SinglePresentationWitness ==
  /\ last.op = "timer" /\ mounted
  /\ showNotification /\ confetti >= 2 /\ Len(notifications) >= 2

\* C2: while every mark-read call succeeds, each notification is shown
\* exactly once, and a notification whose acknowledgment resumed is never in
\* the queue again.
ShownExactlyOnce ==
  (mounted /\ userChanges = 0 /\ ~markReadFailed /\ ~loadFailed) =>
     \A n \in Ids : /\ shown[n] <= 1
                    /\ acks[n] > 0 => n \notin Range(notifications)

\* C3: the queue is ascending in created_at, and every Idle -> Showing
\* transition selects the head of the queue as it is at that moment, which is
\* the earliest notification of the queue.
OrderPreservation ==
  [][/\ Sorted(notifications')
     /\ \A n \in Ids : shown'[n] # shown[n] =>
          /\ notifications' # <<>>
          /\ n = notifications'[1]
          /\ n = currentNotification'
          /\ \A m \in Range(notifications') : created_at(n) <= created_at(m)
    ]_vars

\* A, B and C were loaded together and have been shown one after the other
OrderPreservationWitness ==
  /\ last.op = "closeResume" /\ currentNotification = "C"
  /\ shown = [n \in Ids |-> 1] /\ confetti = 3 /\ nInserts = 0
  /\ ~markReadFailed /\ ~loadFailed

\* C4: a reload applied while a notification is shown leaves it shown,
\* replaces the queue by the reloaded sequence and triggers no confetti;
\* confetti is triggered once per Idle -> Showing transition and only then
\* (a handleClose that resumes passes through Idle before its effect shows
\* the next notification).
NoInterruption ==
  [][/\ (last'.op = "load" /\ mounted /\ showNotification) =>
          /\ showNotification' /\ currentNotification' = currentNotification
          /\ confetti' = confetti
          /\ \E l \in BagToSet(loads) :
               /\ l.phase = "data" /\ loads' = loads (-) One(l)
               /\ notifications' = l.data
     /\ confetti' # confetti =>
          /\ confetti' = confetti + 1
          /\ showNotification'
          /\ showNotification => last'.op = "closeResume"
     /\ (~showNotification /\ showNotification') => confetti' = confetti + 1
    ]_vars

\* the reload [A, C] was applied while A was shown
NoInterruptionWitness ==
  /\ last.op = "load" /\ last.prevShow /\ mounted
  /\ currentNotification = "A" /\ notifications = <<"A", "C">>
  /\ confetti = 1 /\ nInserts = 1

\* C5: a shown notification leaves the Showing state only by the completion
\* of a handleClose that was issued for that notification.
AckOnlyCurrent ==
  [][(last'.op = "closeResume" /\ showNotification) =>
        last'.id = currentNotification]_vars

\* C6: a handleClose that resumes for an id leaves the queue without that id
\* and removes nothing else; if the id was acknowledged before and is not in
\* the queue, the queue is left as it was.
IdempotentAck ==
  [][(last'.op = "closeResume" /\ mounted) =>
        /\ last'.id \notin Range(notifications')
        /\ Range(notifications') = Range(notifications) \ {last'.id}
        /\ last'.id \notin Range(notifications) => notifications' = notifications
    ]_vars

\* the second handleClose for one id has resumed on a queue that is not empty
IdempotentAckWitness ==
  /\ last.op = "closeResume" /\ mounted
  /\ acks[last.id] = 2 /\ notifications # <<>>

\* C7: once no reload is in flight the queue holds exactly the rows the
\* backend has unread for the user (no failure, no dismissal, no teardown).
ReloadConvergence ==
  (/\ Quiescent /\ mounted /\ userChanges = 0
   /\ nCloses = 0 /\ ~loadFailed /\ ~markReadFailed)
     => Range(notifications) = UnreadOf(userId)

\* C8: the step of a dismissal presents no notification; the next one is
\* presented by the timer the dismissal started.
SettlingDelay ==
  last.op = "closeResume" => ~showNotification

\* C9: after a teardown, an insert event invokes no reload callback: every
\* reload a notice starts is one of the mounted component for its userId.
SubscriptionTeardown ==
  [][(last'.op = "onInsert" /\ loads' # loads) =>
        /\ mounted
        /\ \A l \in BagToSet(loads') :
             CopiesIn(l, loads') > CopiesIn(l, loads) =>
               (l.user = userId /\ CopiesIn(l, loads') = CopiesIn(l, loads) + 1)
    ]_vars

\* C10: the callback of a settling timer never runs after the unmount.
TimerTeardown ==
  last.op = "timer" => mounted

\* C11: a reload that completes with a backend error leaves the queue, the
\* shown notification, the Idle/Showing state and the confetti as they were.
LoadFailSoft ==
  [][last'.op = "loadError" =>
        /\ notifications' = notifications
        /\ showNotification' = showNotification
        /\ currentNotification' = currentNotification
        /\ confetti' = confetti /\ showing' = showing
    ]_vars

\* a reload has failed while a notification is shown and the queue is not empty
LoadFailSoftWitness ==
  /\ last.op = "loadError" /\ loadFailed /\ mounted
  /\ showNotification /\ notifications # <<>> /\ nInserts = 1

\* C12: a handleClose whose mark-read call failed still ends the presentation
\* of its notification and removes it from the queue, and the row stays
\* unread; the answer of a later query holds every unread row of the user,
\* and applying it makes it the queue, so the notification is back.
MarkReadFailureDismisses ==
  [][/\ \A c \in BagToSet(closes) :
          (/\ last'.op = "closeResume" /\ mounted
           /\ c.phase = "fail" /\ closes' = closes (-) One(c)) =>
             /\ c.id \notin Range(notifications')
             /\ currentNotification' # c.id /\ c.id \notin showing'
             /\ notifications' = <<>> => ~showNotification'
             /\ unread' = unread
     /\ last'.op = "markReadError" => unread' = unread
     /\ last'.op = "select" =>
          \A l \in BagToSet(loads') :
             (l.phase = "data" /\ CopiesIn(l, loads') > CopiesIn(l, loads)) =>
                Range(l.data) = UnreadOf(l.user)
     /\ (last'.op = "load" /\ mounted) =>
          \E l \in BagToSet(loads) :
             /\ l.phase = "data" /\ loads' = loads (-) One(l)
             /\ notifications' = l.data
    ]_vars

\* the mark-read of A failed, A was dismissed, and a reload has put A back
MarkReadFailureWitness ==
  /\ last.op = "load" /\ mounted /\ markReadFailed /\ ~loadFailed
  /\ nCloses = 1 /\ acks["A"] = 1 /\ closes = EmptyBag
  /\ "A" \in unread /\ "A" \in Range(notifications) /\ shown["A"] = 2

\* C13: the sequencer never rests Idle on a queue that is not empty: every
\* reload and every removal that leaves the queue non-empty ends, by the
\* effect of its render, in Showing, and a presentation that starts there
\* is of the head of the queue.
SequencerReacts ==
  [][/\ (mounted /\ ~showNotification') => notifications' = <<>>
     /\ (mounted /\ last'.op \in {"load", "closeResume"}
         /\ notifications' # <<>>) =>
          /\ showNotification'
          /\ (last'.op = "closeResume" \/ ~showNotification) =>
               currentNotification' = notifications'[1]
    ]_vars

\* the mount load found nothing; the reload after the insert of B was applied
\* while Idle and B is shown
SequencerReactsWitness ==
  /\ last.op = "load" /\ ~last.prevShow /\ mounted /\ ~loadFailed
  /\ rows = {"B"} /\ nInserts = 1 /\ loads = EmptyBag /\ nCloses = 0
  /\ showNotification /\ currentNotification = "B" /\ confetti = 1

\* C14: a dismissal removes the notification and leaves Showing in the step
\* of the click: while the mark-read call of a dismissal is in flight, its
\* notification is not at once still shown and still in the queue.
DismissalSynchronous ==
  \A c \in BagToSet(closes) :
     (mounted /\ c.phase = "sent") =>
        ~(/\ showNotification /\ currentNotification = c.id
          /\ c.id \in Range(notifications))

\* C15: after a change of userId, no reload that was started for the former
\* user makes that user's notifications the queue.
QueueOfCurrentUser ==
  [][(last'.op = "load" /\ mounted) =>
        \A l \in BagToSet(loads) :
           (/\ l.phase = "data" /\ loads' = loads (-) One(l)
            /\ l.user # userId /\ l.data # <<>>) => notifications' # l.data
    ]_vars

\* C16: in every reachable state showNotification is true exactly if
\* currentNotification is not null.
ShowIffCurrent ==
  showNotification <=> (currentNotification # Null)

\* a dismissal has emptied the queue and left the component Idle
ShowIffCurrentWitness ==
  /\ last.op = "closeResume" /\ mounted /\ acks[last.id] = 1
  /\ ~showNotification /\ currentNotification = Null /\ confetti >= 1

\* C17: a handleClose is only issued while a notification is shown and its
\* mark-read call is for that notification; every row the procedure marks
\* read has been shown; while nothing is shown no call is issued.
MarkReadOnlyShown ==
  [][/\ \A c \in BagToSet(closes') :
          (c.phase = "sent" /\ CopiesIn(c, closes') > CopiesIn(c, closes)) =>
             /\ last'.op = "click" /\ mounted
             /\ showNotification /\ currentNotification = c.id
             /\ shown[c.id] >= 1
     /\ \A n \in unread \ unread' : last'.op = "markRead" /\ shown[n] >= 1
     /\ ~showNotification =>
          /\ BagCardinality(closes') <= BagCardinality(closes)
          /\ nCloses' = nCloses
    ]_vars

\* the row of A was marked read by the call of the dismissal of A, while A
\* is still shown
MarkReadOnlyShownWitness ==
  /\ last.op = "markRead" /\ last.id = "A" /\ mounted
  /\ "A" \in rows \ unread /\ shown["A"] = 1
  /\ showNotification /\ currentNotification = "A"
====
